---- MODULE Spec2Model ----
(***************************************************************************)
(* Model of monte/asset_manager.py: the Asset window/buffer engine, the    *)
(* AssetManager registry and refill logic, and the background data getter  *)
(* process that feeds buffered_df_queue.                                   *)
(*                                                                         *)
(* Time is modelled by integers.  A calendar day d holds SlotsPerDay bar   *)
(* slots; the bar of slot k of day d has timestamp d * SlotsPerDay + k.    *)
(* Dataframes are sequences of rows.  A row of Asset.buffer has only base  *)
(* columns and is represented by its timestamp; a row of Asset.df is a     *)
(* record of its timestamp and the value of the derived column (NaN when   *)
(* the column was never written).                                          *)
(***************************************************************************)
EXTENDS Integers, Sequences, FiniteSets, TLC

(***************************************************************************)
(* Bounds of the model.                                                    *)
(***************************************************************************)
MaxRows == 3                \* largest max_rows_in_df tried
MaxStartBufferDays == 2     \* largest start_buffer_days tried
StartDate == 7              \* machine_settings.start_date (a day number)
EndDate == 8                \* machine_settings.end_date (a day number)
DataBufferDays == 1         \* calendar days per buffer range
SlotsPerDay == 2            \* bar slots per calendar day, the last one after the close
MaxRawLen == 3              \* longest raw frame passed to a direct call of _get_alpaca_data
FetchStartDate == 4         \* start_date of that call (a Friday)
FetchEndDate == 7           \* end_date of that call (the Monday after)

Symbols == {"SPY", "AAPL"}
NaN == -1
LookbackDays == 30

VARIABLES
    max_rows_in_df,         \* MachineSettings.max_rows_in_df
    start_buffer_days,      \* MachineSettings.start_buffer_days
    time_frame_unit,        \* MachineSettings.time_frame.unit
    watched_assets,         \* keys of AssetManager.watched_assets, in insertion order
    asset,                  \* symbol -> [df, buffer, has_start_buffer_rows]
    simulation_running,     \* AssetManager.simulation_running
    buffered_df_queue,      \* AssetManager.buffered_df_queue
    producer,               \* the data getter process: [pc, i, symbols]
    lastOp,                 \* the last consumer-side call
    lastResult,             \* how that call ended
    admitted,               \* history: symbol -> rows admitted to the Asset object, as admitted
    sent,                   \* history: tags of the items put on the queue
    consumed,               \* history: tags of the items taken from the queue
    trace,                  \* history: what the last consumer-side call did inside
    fetched                 \* a direct call of _get_alpaca_data: [pc, raw, result]

vars == <<max_rows_in_df, start_buffer_days, time_frame_unit, watched_assets, asset,
          simulation_running, buffered_df_queue, producer, lastOp, lastResult,
          admitted, sent, consumed, trace, fetched>>

config == <<max_rows_in_df, start_buffer_days, time_frame_unit>>

(***************************************************************************)
(* Sequence helpers.                                                       *)
(***************************************************************************)
Last(s) == s[Len(s)]

Range(s) == {s[i] : i \in DOMAIN s}

Contains(s, x) == \E i \in DOMAIN s : s[i] = x

Remove(s, x) == SelectSeq(s, LAMBDA y : y # x)

Min(S) == CHOOSE x \in S : \A y \in S : x <= y

RECURSIVE SortedSeq(_)
SortedSeq(S) == IF S = {} THEN <<>> ELSE <<Min(S)>> \o SortedSeq(S \ {Min(S)})

StrictlyIncreasing(s) == \A i \in 1..(Len(s) - 1) : s[i] < s[i + 1]

(***************************************************************************)
(* Calendar Provider and timestamps.                                       *)
(***************************************************************************)
DateOf(ts) == ts \div SlotsPerDay

SlotOf(ts) == ts % SlotsPerDay

IsTradingDay(d) == (d % 7) \notin {5, 6}

get_list_of_trading_days_in_range(start_date, end_date) ==
    SortedSeq({d \in start_date..end_date : IsTradingDay(d)})

\* Session boundaries: the market is open from slot 0 to slot SlotsPerDay - 2,
\* the last slot of a day lies after the close.
open_time(d) == d * SlotsPerDay

close_time(d) == d * SlotsPerDay + (SlotsPerDay - 2)

get_list_of_buffer_ranges(start_date, end_date) ==
    [k \in 1..(((end_date - start_date) \div DataBufferDays) + 1) |->
        <<start_date + (k - 1) * DataBufferDays,
          IF start_date + k * DataBufferDays - 1 < end_date
             THEN start_date + k * DataBufferDays - 1 ELSE end_date>>]

(***************************************************************************)
(* Bar Source.  For a symbol and a date range it returns raw rows, one per *)
(* slot of every calendar day of the range, except the slots of a missing  *)
(* pattern (a symbol may have no bar for a slot, or no bars at all).       *)
(***************************************************************************)
MissingPatterns == {{}, {0}, 0..(SlotsPerDay - 1)}

get_bulk_bars(start_date, end_date, missing) ==
    SortedSeq({ts \in (start_date * SlotsPerDay)..(end_date * SlotsPerDay + SlotsPerDay - 1) :
                  SlotOf(ts) \notin missing})

(***************************************************************************)
(* Chunk Fetcher: the rows of one symbol that survive the filter.          *)
(***************************************************************************)
\* Mutant of OutsideHours: the market hours are checked for daily bars too.
OutsideHours_noday(unit, row_datetime, trading_day) ==
    row_datetime < open_time(trading_day) \/ row_datetime > close_time(trading_day)

OutsideHours(unit, row_datetime, trading_day) ==
    /\ unit # "Day"
    /\ (row_datetime < open_time(trading_day) \/ row_datetime > close_time(trading_day))

RowIsKept(unit, trading_days, ts) ==
    /\ Contains(trading_days, DateOf(ts))
    /\ ~OutsideHours(unit, ts, DateOf(ts))

get_alpaca_data_rows(unit, raw, start_date, end_date) ==
    LET trading_days == get_list_of_trading_days_in_range(start_date, end_date)
    IN  SelectSeq(raw, LAMBDA ts : RowIsKept(unit, trading_days, ts))

\* The mapping returned for a list of symbols; miss gives the Bar Source's
\* missing pattern of each symbol.
get_alpaca_data(unit, symbols, start_date, end_date, miss) ==
    [s \in Symbols |->
        IF Contains(symbols, s)
           THEN get_alpaca_data_rows(unit, get_bulk_bars(start_date, end_date, miss[s]),
                                     start_date, end_date)
           ELSE <<>>]

(***************************************************************************)
(* Chunk Fetcher on a whole frame.  A raw row is a record of its index     *)
(* label and the columns t, o, h, l, c, v, n, vw of the Bar Source; the    *)
(* cell of column t holds the timestamp, every other cell holds the pair   *)
(* of the column and the row it was created in.                            *)
(***************************************************************************)
RawFrame(tss) ==
    [i \in DOMAIN tss |->
        [index |-> i - 1, t |-> tss[i], o |-> <<"o", i>>, h |-> <<"h", i>>, l |-> <<"l", i>>,
         c |-> <<"c", i>>, v |-> <<"v", i>>, n |-> <<"n", i>>, vw |-> <<"vw", i>>]]

\* buffer.drop(index, inplace=True)
drop(buffer, index) == SelectSeq(buffer, LAMBDA r : r.index # index)

\* The body of the loop over buffer.iterrows() for one row.
filter_row(buffer, row, unit, trading_days) ==
    LET date_in_buffer_range == \E j \in DOMAIN trading_days : DateOf(row.t) = trading_days[j]
        outside == \E j \in DOMAIN trading_days :
                       /\ DateOf(row.t) = trading_days[j]
                       /\ OutsideHours(unit, row.t, trading_days[j])
    IN  IF outside \/ ~date_in_buffer_range THEN drop(buffer, row.index) ELSE buffer

\* iterrows() walks the rows the frame had when the loop started.
RECURSIVE filter_rows(_, _, _, _, _)
filter_rows(buffer, rows, k, unit, trading_days) ==
    IF k > Len(rows)
       THEN buffer
       ELSE filter_rows(filter_row(buffer, rows[k], unit, trading_days), rows, k + 1,
                        unit, trading_days)

\* buffer.reset_index(drop=True, inplace=True)
reset_index(buffer) == [i \in DOMAIN buffer |-> [buffer[i] EXCEPT !.index = i - 1]]

\* buffer.rename(columns={...}), then the datetime column is added.
rename_columns(buffer) ==
    [i \in DOMAIN buffer |->
        [index |-> buffer[i].index, timestamp |-> buffer[i].t, open |-> buffer[i].o,
         high |-> buffer[i].h, low |-> buffer[i].l, close |-> buffer[i].c,
         volume |-> buffer[i].v, trade_count |-> buffer[i].n, vwap |-> buffer[i].vw]]

add_datetime(buffer) ==
    [i \in DOMAIN buffer |->
        [index |-> buffer[i].index, timestamp |-> buffer[i].timestamp, open |-> buffer[i].open,
         high |-> buffer[i].high, low |-> buffer[i].low, close |-> buffer[i].close,
         volume |-> buffer[i].volume, trade_count |-> buffer[i].trade_count,
         vwap |-> buffer[i].vwap, datetime |-> buffer[i].timestamp]]

get_alpaca_data_frame(unit, raw, start_date, end_date) ==
    LET trading_days == get_list_of_trading_days_in_range(start_date, end_date)
    IN  add_datetime(rename_columns(reset_index(filter_rows(raw, raw, 1, unit, trading_days))))

(***************************************************************************)
(* Asset.                                                                  *)
(***************************************************************************)
NewAsset == [df |-> <<>>, buffer |-> <<>>, has_start_buffer_rows |-> FALSE]

count_unique_days_in_dataframe(df) ==
    Cardinality({DateOf(df[i].timestamp) : i \in DOMAIN df})

\* The derived column of the model: the number of rows of the window it is
\* evaluated on.
column_func(symbol, timestamp, df) == Len(df)

\* Mutants of DropOldest: the limit is off by one, either way.
DropOldest_late(df, max_rows) == IF Len(df) > max_rows + 1 THEN Tail(df) ELSE df

DropOldest_early(df, max_rows) == IF Len(df) >= max_rows THEN Tail(df) ELSE df

\* if len(self.df.index) > max_rows_in_df: drop the oldest row
DropOldest(df, max_rows) == IF Len(df) > max_rows THEN Tail(df) ELSE df

\* Mutant of WarmupSatisfied: the sticky flag is not consulted.
WarmupSatisfied_noflag(a, df, sbd) == count_unique_days_in_dataframe(df) >= sbd

\* the condition of the derived-column block
WarmupSatisfied(a, df, sbd) ==
    a.has_start_buffer_rows \/ count_unique_days_in_dataframe(df) >= sbd

\* df.at[df.index[-1], column_title] = column_func(identifier, df)
SetDerived(symbol, df) ==
    [df EXCEPT ![Len(df)].derived = column_func(symbol, df[Len(df)].timestamp, df)]

increment_dataframe(symbol, a, max_rows, sbd) ==
    LET latest_row == IF a.buffer = <<>> THEN <<>>
                      ELSE <<[timestamp |-> Head(a.buffer), derived |-> NaN]>>
        df1 == a.df \o latest_row
        buffer1 == IF a.buffer = <<>> THEN <<>> ELSE Tail(a.buffer)
        df2 == DropOldest(df1, max_rows)
    IN  IF WarmupSatisfied(a, df2, sbd)
           \* df.iloc[-1] of an empty window raises IndexError; the window is never
           \* empty here when max_rows >= 1 and sbd >= 1.
           THEN [df |-> IF df2 = <<>> THEN df2 ELSE SetDerived(symbol, df2),
                 buffer |-> buffer1, has_start_buffer_rows |-> TRUE]
           ELSE [df |-> df2, buffer |-> buffer1,
                 has_start_buffer_rows |-> a.has_start_buffer_rows]

\* History: whether the derived-column block of a call of increment_dataframe
\* runs (and writes the last row of the window).
DerivedEvaluated(symbol, a, max_rows, sbd) ==
    LET df == increment_dataframe(symbol, a, max_rows, sbd).df
    IN  WarmupSatisfied(a, df, sbd) /\ df # <<>>

\* History: the row an admission moves from the buffer into the window, with
\* the derived value it has when increment_dataframe returns.
AdmittedRow(symbol, a, max_rows, sbd) ==
    LET df == increment_dataframe(symbol, a, max_rows, sbd).df
    IN  [timestamp |-> Head(a.buffer),
         derived |-> IF df = <<>> THEN NaN ELSE Last(df).derived]

\* while not buffer.empty: increment_dataframe()
RECURSIVE Drain(_, _, _, _)
Drain(symbol, a, max_rows, sbd) ==
    IF a.buffer = <<>> THEN a
    ELSE Drain(symbol, increment_dataframe(symbol, a, max_rows, sbd), max_rows, sbd)

\* History of a drain: the rows admitted by it, each as it was when admitted.
RECURSIVE DrainAdmitted(_, _, _, _)
DrainAdmitted(symbol, a, max_rows, sbd) ==
    IF a.buffer = <<>> THEN <<>>
    ELSE <<AdmittedRow(symbol, a, max_rows, sbd)>>
         \o DrainAdmitted(symbol, increment_dataframe(symbol, a, max_rows, sbd), max_rows, sbd)

(***************************************************************************)
(* Queue items.  A chunk is the mapping of one buffer range: keys lists    *)
(* its symbols in iteration order, range is the index of its buffer range. *)
(***************************************************************************)
NoData == [s \in Symbols |-> <<>>]

ChunkItem(range, keys, data) == [kind |-> "chunk", range |-> range, keys |-> keys, data |-> data]

DoneItem == [kind |-> "DONE", range |-> 0, keys |-> <<>>, data |-> NoData]

\* What the histories keep of an item.
Tag(item) == <<item.kind, item.range>>

(***************************************************************************)
(* AssetManager.                                                           *)
(***************************************************************************)
is_watching_asset(symbol) == Contains(watched_assets, symbol)

\* Mutant of AnyBufferEmpty: a refill is asked for only when every buffer is empty.
AnyBufferEmpty_all(assets) == \A i \in DOMAIN watched_assets : assets[watched_assets[i]].buffer = <<>>

AnyBufferEmpty(assets) == \E i \in DOMAIN watched_assets : assets[watched_assets[i]].buffer = <<>>

\* Number of keys of the mapping assigned before self.watched_assets[symbol]
\* raises KeyError (all of them when every key is tracked).
AssignedKeys(keys) ==
    IF \E i \in DOMAIN keys : ~is_watching_asset(keys[i])
       THEN Min({i \in DOMAIN keys : ~is_watching_asset(keys[i])}) - 1
       ELSE Len(keys)

AssignedSymbols(item) ==
    IF item.kind = "chunk" THEN {item.keys[i] : i \in 1..AssignedKeys(item.keys)} ELSE {}

\* for symbol, new_buffer in new_data.items(): watched_assets[symbol].buffer = new_buffer
AssignBuffers(assets, item) ==
    [s \in Symbols |->
        IF s \in AssignedSymbols(item)
           THEN [assets[s] EXCEPT !.buffer = item.data[s]]
           ELSE assets[s]]

\* Mutant of populate_buffers: the sentinel is taken off the queue without raising.
populate_buffers_nostop(assets, item) ==
    IF item.kind = "chunk"
       THEN [assets |-> AssignBuffers(assets, item),
             raised |-> IF AssignedKeys(item.keys) < Len(item.keys) THEN "KeyError" ELSE "none"]
       ELSE [assets |-> assets, raised |-> "none"]

\* Mutant of populate_buffers: every string is taken for the sentinel.
populate_buffers_anystr(assets, item) ==
    IF item.kind = "chunk"
       THEN [assets |-> AssignBuffers(assets, item),
             raised |-> IF AssignedKeys(item.keys) < Len(item.keys) THEN "KeyError" ELSE "none"]
       ELSE IF item.kind \in {"DONE", "string"}
               THEN [assets |-> assets, raised |-> "StopIteration"]
               ELSE [assets |-> assets, raised |-> "TypeError"]

populate_buffers(assets, item) ==
    IF item.kind = "chunk"
       THEN [assets |-> AssignBuffers(assets, item),
             raised |-> IF AssignedKeys(item.keys) < Len(item.keys) THEN "KeyError" ELSE "none"]
       ELSE IF item.kind = "DONE"
               THEN [assets |-> assets, raised |-> "StopIteration"]
               ELSE [assets |-> assets, raised |-> "TypeError"]

\* Mutant of IncrementAll: only the reference asset is incremented.
IncrementAll_ref(assets) ==
    [s \in Symbols |->
        IF s = "SPY"
           THEN increment_dataframe(s, assets[s], max_rows_in_df, start_buffer_days)
           ELSE assets[s]]

\* for asset in watched_assets.values(): asset.increment_dataframe()
IncrementAll(assets) ==
    [s \in Symbols |->
        IF is_watching_asset(s)
           THEN increment_dataframe(s, assets[s], max_rows_in_df, start_buffer_days)
           ELSE assets[s]]

Evaluated(assets) ==
    {s \in Range(watched_assets) :
        DerivedEvaluated(s, assets[s], max_rows_in_df, start_buffer_days)}

EmptyBuffers(assets) == {s \in Range(watched_assets) : assets[s].buffer = <<>>}

AdmittedAfter(assets) ==
    [s \in Symbols |->
        IF is_watching_asset(s) /\ assets[s].buffer # <<>>
           THEN Append(admitted[s],
                       AdmittedRow(s, assets[s], max_rows_in_df, start_buffer_days))
           ELSE admitted[s]]

\* The date range of the warm-up fetch.
StartBufferRange ==
    LET trading_days_before_current ==
            get_list_of_trading_days_in_range(StartDate - start_buffer_days - LookbackDays,
                                              EndDate - 1)
        n == Len(trading_days_before_current)
    IN  <<trading_days_before_current[n + 1 - start_buffer_days], trading_days_before_current[n]>>

\* trace.assigned: the symbols whose buffer a refill assigned;
\* trace.overwritten: those of them whose buffer still held rows;
\* trace.emptyAdmit: the symbols whose increment_dataframe ran on an empty buffer;
\* trace.evaluated: the symbols whose increment_dataframe wrote the derived column.
NoTrace == [assigned |-> {}, overwritten |-> {}, emptyAdmit |-> {}, evaluated |-> {}]

NoFetch == [pc |-> "idle", raw |-> <<>>, result |-> <<>>]

Init ==
    /\ max_rows_in_df \in 1..MaxRows
    /\ start_buffer_days \in 1..MaxStartBufferDays
    /\ time_frame_unit \in {"Minute", "Day"}
    /\ watched_assets = <<"SPY">>
    /\ asset = [s \in Symbols |-> NewAsset]
    /\ simulation_running = FALSE
    /\ buffered_df_queue = <<>>
    /\ producer = [pc |-> "unspawned", i |-> 0, symbols |-> <<>>]
    /\ lastOp = "init"
    /\ lastResult = "none"
    /\ admitted = [s \in Symbols |-> <<>>]
    /\ sent = <<>>
    /\ consumed = <<>>
    /\ trace = NoTrace
    /\ fetched = NoFetch

Called(op, result, tr) ==
    /\ lastOp' = op
    /\ lastResult' = result
    /\ trace' = tr

watch_asset(symbol) ==
    /\ IF ~is_watching_asset(symbol)
          THEN /\ watched_assets' = Append(watched_assets, symbol)
               /\ asset' = [asset EXCEPT ![symbol] = NewAsset]
               /\ admitted' = [admitted EXCEPT ![symbol] = <<>>]
          ELSE UNCHANGED <<watched_assets, asset, admitted>>
    /\ Called("watch", "none", NoTrace)
    /\ UNCHANGED <<config, fetched, simulation_running, buffered_df_queue, producer, sent, consumed>>

\* Mutant of unwatch_asset: the reference symbol is removed like any other.
unwatch_asset_any(symbol) ==
    /\ IF is_watching_asset(symbol)
          THEN watched_assets' = Remove(watched_assets, symbol)
          ELSE UNCHANGED watched_assets
    /\ Called("unwatch", IF is_watching_asset(symbol) THEN "True" ELSE "False", NoTrace)
    /\ UNCHANGED <<config, fetched, asset, admitted, simulation_running, buffered_df_queue, producer,
                   sent, consumed>>

unwatch_asset(symbol) ==
    /\ IF is_watching_asset(symbol) /\ symbol # "SPY"
          THEN watched_assets' = Remove(watched_assets, symbol)
          ELSE UNCHANGED watched_assets
    /\ Called("unwatch", IF is_watching_asset(symbol) THEN "True" ELSE "False", NoTrace)
    /\ UNCHANGED <<config, fetched, asset, admitted, simulation_running, buffered_df_queue, producer,
                   sent, consumed>>

\* add_start_buffer_data, then the data getter process is started.  The driver
\* calls startup once per simulation run (Created -> Started); dates are day
\* numbers, so the isoformat conversions of the source are not modelled.
startup ==
    /\ ~simulation_running
    /\ \E miss \in [Symbols -> MissingPatterns] :
          LET r == StartBufferRange
              start_buffer_data == get_alpaca_data(time_frame_unit, watched_assets,
                                                   r[1], r[2], miss)
              loaded == [s \in Symbols |->
                            IF is_watching_asset(s)
                               THEN [asset[s] EXCEPT !.buffer = start_buffer_data[s]]
                               ELSE asset[s]]
          IN  /\ asset' = [s \in Symbols |->
                              IF is_watching_asset(s)
                                 THEN Drain(s, loaded[s], max_rows_in_df, start_buffer_days)
                                 ELSE asset[s]]
              /\ admitted' = [s \in Symbols |->
                                 IF is_watching_asset(s)
                                    THEN admitted[s] \o DrainAdmitted(s, loaded[s], max_rows_in_df,
                                                                      start_buffer_days)
                                    ELSE admitted[s]]
    /\ simulation_running' = TRUE
    /\ producer' = [pc |-> "running", i |-> 1, symbols |-> watched_assets]
    /\ Called("startup", "none", NoTrace)
    /\ UNCHANGED <<config, fetched, watched_assets, buffered_df_queue, sent, consumed>>

increment_dataframes ==
    IF AnyBufferEmpty(asset)
       THEN /\ buffered_df_queue # <<>>      \* queue.get() blocks on an empty queue
            /\ LET new_data == Head(buffered_df_queue)
                   p == populate_buffers(asset, new_data)
               IN  /\ buffered_df_queue' = Tail(buffered_df_queue)
                   /\ consumed' = Append(consumed, Tag(new_data))
                   /\ IF p.raised = "none"
                         THEN /\ asset' = IncrementAll(p.assets)
                              /\ admitted' = AdmittedAfter(p.assets)
                         ELSE /\ asset' = p.assets
                              /\ admitted' = admitted
                   /\ Called("advance", p.raised,
                             [assigned |-> AssignedSymbols(new_data),
                              overwritten |-> {s \in AssignedSymbols(new_data) :
                                                  asset[s].buffer # <<>>},
                              emptyAdmit |-> IF p.raised = "none" THEN EmptyBuffers(p.assets)
                                             ELSE {},
                              evaluated |-> IF p.raised = "none" THEN Evaluated(p.assets)
                                            ELSE {}])
            /\ UNCHANGED <<config, fetched, watched_assets, simulation_running, producer, sent>>
       ELSE /\ asset' = IncrementAll(asset)
            /\ admitted' = AdmittedAfter(asset)
            /\ Called("advance", "none",
                      [assigned |-> {}, overwritten |-> {}, emptyAdmit |-> EmptyBuffers(asset),
                       evaluated |-> Evaluated(asset)])
            /\ UNCHANGED <<config, fetched, watched_assets, simulation_running, buffered_df_queue,
                           producer, sent, consumed>>

(***************************************************************************)
(* The data getter process (_get_alpaca_data_as_process).                  *)
(***************************************************************************)
buffer_ranges == get_list_of_buffer_ranges(StartDate, EndDate)

ProducerPutChunk ==
    /\ producer.pc = "running"
    /\ producer.i <= Len(buffer_ranges)
    /\ \E miss \in [Symbols -> MissingPatterns] :
          LET buffer_range == buffer_ranges[producer.i]
              buffer_data == get_alpaca_data(time_frame_unit, producer.symbols,
                                             buffer_range[1], buffer_range[2], miss)
              item == ChunkItem(producer.i, producer.symbols, buffer_data)
          IN  /\ buffered_df_queue' = Append(buffered_df_queue, item)
              /\ sent' = Append(sent, Tag(item))
    /\ producer' = [producer EXCEPT !.i = producer.i + 1]
    /\ UNCHANGED <<config, fetched, watched_assets, asset, simulation_running, lastOp, lastResult,
                   admitted, consumed, trace>>

\* Mutant of ProducerPutDone: the sentinel may be put before the last chunk.
ProducerPutDone_early ==
    /\ producer.pc = "running"
    /\ producer.i >= Len(buffer_ranges)
    /\ buffered_df_queue' = Append(buffered_df_queue, DoneItem)
    /\ sent' = Append(sent, Tag(DoneItem))
    /\ producer' = [producer EXCEPT !.pc = "done"]
    /\ UNCHANGED <<config, fetched, watched_assets, asset, simulation_running, lastOp, lastResult,
                   admitted, consumed, trace>>

ProducerPutDone ==
    /\ producer.pc = "running"
    /\ producer.i > Len(buffer_ranges)
    /\ buffered_df_queue' = Append(buffered_df_queue, DoneItem)
    /\ sent' = Append(sent, Tag(DoneItem))
    /\ producer' = [producer EXCEPT !.pc = "done"]
    /\ UNCHANGED <<config, fetched, watched_assets, asset, simulation_running, lastOp, lastResult,
                   admitted, consumed, trace>>

\* A fetch raises: the process dies without putting anything more.
ProducerFail ==
    /\ producer.pc = "running"
    /\ producer.i <= Len(buffer_ranges)
    /\ producer' = [producer EXCEPT !.pc = "failed"]
    /\ UNCHANGED <<config, fetched, watched_assets, asset, simulation_running, buffered_df_queue,
                   lastOp, lastResult, admitted, sent, consumed, trace>>

Next ==
    \/ \E symbol \in Symbols : watch_asset(symbol)
    \/ \E symbol \in Symbols : unwatch_asset(symbol)
    \/ startup
    \/ increment_dataframes
    \/ ProducerPutChunk
    \/ ProducerPutDone
    \/ ProducerFail

Spec == Init /\ [][Next]_vars

(***************************************************************************)
(* The queue with a second writer: something other than a mapping or the   *)
(* sentinel is put on buffered_df_queue (a string that is not "DONE", or   *)
(* an object of another type), once, while the queue is empty.             *)
(***************************************************************************)
InvalidKinds == {"string", "other"}

InvalidItem(kind) == [kind |-> kind, range |-> 0, keys |-> <<>>, data |-> NoData]

PutInvalid ==
    /\ simulation_running
    /\ buffered_df_queue = <<>>
    /\ \A i \in DOMAIN sent : sent[i][1] \notin InvalidKinds
    /\ \E kind \in InvalidKinds :
          /\ buffered_df_queue' = Append(buffered_df_queue, InvalidItem(kind))
          /\ sent' = Append(sent, Tag(InvalidItem(kind)))
    /\ UNCHANGED <<config, fetched, watched_assets, asset, simulation_running, producer, lastOp,
                   lastResult, admitted, consumed, trace>>

NextInject == Next \/ PutInvalid

SpecInject == Init /\ [][NextInject]_vars

(***************************************************************************)
(* _get_alpaca_data called directly on one symbol's raw frame: the frame   *)
(* is any sequence of at most MaxRawLen rows stamped from the day before   *)
(* FetchStartDate to the day after FetchEndDate.                           *)
(***************************************************************************)
RawTimestamps == ((FetchStartDate - 1) * SlotsPerDay)..((FetchEndDate + 2) * SlotsPerDay - 1)

RawInputs == UNION {[1..n -> RawTimestamps] : n \in 0..MaxRawLen}

InitFetch ==
    /\ max_rows_in_df = MaxRows
    /\ start_buffer_days = MaxStartBufferDays
    /\ time_frame_unit \in {"Minute", "Day"}
    /\ watched_assets = <<"SPY">>
    /\ asset = [s \in Symbols |-> NewAsset]
    /\ simulation_running = FALSE
    /\ buffered_df_queue = <<>>
    /\ producer = [pc |-> "unspawned", i |-> 0, symbols |-> <<>>]
    /\ lastOp = "init"
    /\ lastResult = "none"
    /\ admitted = [s \in Symbols |-> <<>>]
    /\ sent = <<>>
    /\ consumed = <<>>
    /\ trace = NoTrace
    /\ \E tss \in RawInputs : fetched = [pc |-> "input", raw |-> RawFrame(tss), result |-> <<>>]

FetchCall ==
    /\ fetched.pc = "input"
    /\ fetched' = [fetched EXCEPT
                       !.pc = "done",
                       !.result = get_alpaca_data_frame(time_frame_unit, fetched.raw,
                                                        FetchStartDate, FetchEndDate)]
    /\ UNCHANGED <<config, watched_assets, asset, simulation_running, buffered_df_queue,
                   producer, lastOp, lastResult, admitted, sent, consumed, trace>>

NextFetch == FetchCall

SpecFetch == InitFetch /\ [][NextFetch]_vars

(***************************************************************************)
(* The simulation with an aligned Bar Source and a registry that is fixed  *)
(* once startup was called: the warm-up fetch and every chunk hold the     *)
(* same timestamps for every symbol fetched.                               *)
(***************************************************************************)
WatchBeforeStartup == ~simulation_running /\ \E symbol \in Symbols : watch_asset(symbol)

UnwatchBeforeStartup == ~simulation_running /\ \E symbol \in Symbols : unwatch_asset(symbol)

StartupAligned ==
    /\ startup
    /\ \A s \in Range(watched_assets) :
          Len(admitted'[s]) = Len(admitted'["SPY"])
          /\ \A i \in DOMAIN admitted'[s] :
                admitted'[s][i].timestamp = admitted'["SPY"][i].timestamp

PutChunkAligned ==
    /\ ProducerPutChunk
    /\ \A s \in Range(producer.symbols) :
          Last(buffered_df_queue').data[s] = Last(buffered_df_queue').data["SPY"]

NextAligned ==
    \/ WatchBeforeStartup
    \/ UnwatchBeforeStartup
    \/ StartupAligned
    \/ increment_dataframes
    \/ PutChunkAligned
    \/ ProducerPutDone
    \/ ProducerFail

SpecAligned == Init /\ [][NextAligned]_vars

TypeOK ==
    /\ max_rows_in_df \in 1..MaxRows
    /\ start_buffer_days \in 1..MaxStartBufferDays
    /\ simulation_running \in BOOLEAN

(***************************************************************************)
(* Helpers of the properties.                                              *)
(***************************************************************************)
Timestamps(rows) == [i \in DOMAIN rows |-> rows[i].timestamp]

\* The last n elements of a sequence.
LastN(s, n) == SubSeq(s, Len(s) - n + 1, Len(s))

MinOf(a, b) == IF a < b THEN a ELSE b

\* The window an Asset should hold after its k-th admission: the last
\* min(k, max_rows) of the first k admitted rows.
WindowAfter(s, k) == LastN(SubSeq(Timestamps(admitted[s]), 1, k), MinOf(k, max_rows_in_df))

DistinctDates(tss) == Cardinality({DateOf(tss[i]) : i \in DOMAIN tss})

\* The admissions of s after which the window held start_buffer_days distinct dates.
ReachedAt(s) ==
    {k \in 1..Len(admitted[s]) : DistinctDates(WindowAfter(s, k)) >= start_buffer_days}

\* Row k of the history of s was admitted at or after the first such admission.
WarmAt(s, k) == \E j \in ReachedAt(s) : j <= k

(***************************************************************************)
(* C1: the window of every instrument never holds more than max_rows rows, *)
(* in any state between calls.                                             *)
(***************************************************************************)
C1_WindowBounded == \A s \in Symbols : Len(asset[s].df) <= max_rows_in_df

\* A full window that has already evicted a row.
C1_Witness ==
    \E s \in Symbols : /\ Len(asset[s].df) = max_rows_in_df
                       /\ Len(admitted[s]) > max_rows_in_df

(***************************************************************************)
(* C3: a row admitted before the window first held start_buffer_days       *)
(* distinct dates has its derived column unset; the row whose admission    *)
(* first reached that count and every later row have it set, in the        *)
(* history of admissions and in the window, whatever the count is now.     *)
(***************************************************************************)
C3_DerivedAfterWarmup ==
    \A s \in Symbols :
        /\ \A k \in 1..Len(admitted[s]) : (admitted[s][k].derived # NaN) <=> WarmAt(s, k)
        /\ \A i \in 1..Len(asset[s].df) :
              (asset[s].df[i].derived # NaN)
                  <=> WarmAt(s, Len(admitted[s]) - Len(asset[s].df) + i)

\* A window that holds rows with and without the derived column, while its
\* distinct-date count is back below start_buffer_days, or a warm window whose
\* count fell below start_buffer_days.
C3_Witness ==
    \E s \in Symbols :
        /\ asset[s].df # <<>>
        /\ Last(asset[s].df).derived # NaN
        /\ count_unique_days_in_dataframe(asset[s].df) < start_buffer_days
        /\ \E k \in 1..Len(admitted[s]) : admitted[s][k].derived = NaN

(***************************************************************************)
(* C4: after n admissions from a non-empty buffer the window is the last   *)
(* min(n, max_rows) admitted rows, in admission order.                     *)
(***************************************************************************)
C4_WindowIsLastAdmitted ==
    \A s \in Symbols : Timestamps(asset[s].df) = WindowAfter(s, Len(admitted[s]))

\* max_rows = 3 and a fourth row admitted: the window is rows 2..4.
C4_Witness ==
    \E s \in Symbols :
        /\ max_rows_in_df = 3
        /\ Len(admitted[s]) = 4
        /\ Timestamps(asset[s].df) = SubSeq(Timestamps(admitted[s]), 2, 4)

(***************************************************************************)
(* C2: after startup and any number of advance calls the timestamps of     *)
(* every window are strictly increasing from head to tail (the Bar Source  *)
(* returns the rows of the requested range in increasing order, the buffer *)
(* ranges are disjoint and ascending).                                     *)
(***************************************************************************)
C2_WindowStrictlyIncreasing ==
    \A s \in Symbols : StrictlyIncreasing(Timestamps(asset[s].df))

(***************************************************************************)
(* Steps and histories of the queue.                                       *)
(***************************************************************************)
\* A step of increment_dataframes: it takes an item or admits a row.
AdvanceStep == lastOp' = "advance" /\ (consumed' # consumed \/ asset' # asset)

ChunksIn(tags) == Cardinality({i \in DOMAIN tags : tags[i][1] = "chunk"})

NumRanges == Len(buffer_ranges)

\* One chunk per buffer range, in order, then the sentinel.
ExpectedTags ==
    [k \in 1..(NumRanges + 1) |-> IF k <= NumRanges THEN <<"chunk", k>> ELSE Tag(DoneItem)]

IsPrefix(a, b) == Len(a) <= Len(b) /\ \A i \in DOMAIN a : a[i] = b[i]

InRange(ts, k) == DateOf(ts) \in buffer_ranges[k][1]..buffer_ranges[k][2]

(***************************************************************************)
(* C5: an advance raises StopIteration only when the chunk of every buffer *)
(* range has been taken from the queue, and the advance that needs a       *)
(* refill once they all have been taken raises StopIteration.              *)
(***************************************************************************)
C5_StopAfterLastChunk ==
    [][AdvanceStep =>
          /\ (lastResult' = "StopIteration") => (consumed' = ExpectedTags)
          /\ (AnyBufferEmpty(asset) /\ ChunksIn(consumed) = NumRanges)
                 => (lastResult' = "StopIteration")]_vars

\* The advance after the last chunk has failed with StopIteration, all chunks consumed.
C5_Witness ==
    /\ lastOp = "advance"
    /\ lastResult = "StopIteration"
    /\ ChunksIn(consumed) = NumRanges
    /\ NumRanges >= 2

(***************************************************************************)
(* C6: increment_dataframe invoked on an empty buffer reports a failure    *)
(* and leaves the window and the warm-up flag unchanged.                   *)
(***************************************************************************)
C6_EmptyAdmitFails ==
    [][AdvanceStep =>
          \A s \in trace'.emptyAdmit :
              /\ lastResult' # "none"
              /\ asset'[s].df = asset[s].df
              /\ asset'[s].has_start_buffer_rows = asset[s].has_start_buffer_rows]_vars

(***************************************************************************)
(* C7: a refill replaces a buffer only when that buffer is empty, and rows *)
(* leave the buffer of a tracked instrument only from its head, into the   *)
(* window.                                                                 *)
(***************************************************************************)
C7_RefillOnlyWhenEmpty ==
    [][/\ trace'.overwritten = {}
       /\ \A s \in Symbols :
             (is_watching_asset(s) /\ asset[s].buffer # <<>>)
                 => \/ asset'[s].buffer = asset[s].buffer
                    \/ /\ asset'[s].buffer = Tail(asset[s].buffer)
                       /\ Len(admitted'[s]) = Len(admitted[s]) + 1
                       /\ Last(admitted'[s]).timestamp = Head(asset[s].buffer)]_vars

(***************************************************************************)
(* C8: a refill assigns the buffer of every tracked instrument from the    *)
(* chunk, or of none.                                                      *)
(***************************************************************************)
C8_RefillAllOrNothing ==
    trace.assigned = {} \/ trace.assigned = Range(watched_assets)

(***************************************************************************)
(* C9: an advance that returns normally admits exactly one row into the    *)
(* window of every tracked instrument.                                     *)
(***************************************************************************)
C9_AdvanceAdmitsOneEach ==
    [][(AdvanceStep /\ lastResult' = "none") =>
          \A s \in Range(watched_assets) :
              /\ Len(admitted'[s]) = Len(admitted[s]) + 1
              /\ asset'[s].df # <<>>
              /\ Last(asset'[s].df).timestamp = Last(admitted'[s]).timestamp]_vars

(***************************************************************************)
(* C10: the queue carries one chunk per buffer range, in range order, then *)
(* one sentinel and nothing more; the items are taken in that order, each  *)
(* chunk holds rows of its own range only, and the k-th refill installs    *)
(* rows of the k-th range.                                                 *)
(***************************************************************************)
C10_ChunksInRangeOrder ==
    /\ IsPrefix(sent, ExpectedTags)
    /\ (producer.pc = "done") => (sent = ExpectedTags)
    /\ sent = consumed \o [i \in DOMAIN buffered_df_queue |-> Tag(buffered_df_queue[i])]
    /\ \A i \in DOMAIN buffered_df_queue :
          LET item == buffered_df_queue[i]
          IN  item.kind = "chunk" =>
                 \A s \in Symbols : \A j \in DOMAIN item.data[s] :
                     InRange(item.data[s][j], item.range)
    /\ \A s \in trace.assigned :
          /\ \A j \in DOMAIN asset[s].buffer : InRange(asset[s].buffer[j], Len(consumed))
          /\ (lastResult = "none" /\ s \notin trace.emptyAdmit)
                 => InRange(Last(admitted[s]).timestamp, Len(consumed))

\* Both chunks and the sentinel were put and taken, and the second refill
\* installed rows of the second range.
C10_Witness ==
    /\ producer.pc = "done"
    /\ consumed = ExpectedTags
    /\ NumRanges >= 2
    /\ \E i \in DOMAIN consumed : consumed[i] = <<"chunk", 2>>

(***************************************************************************)
(* C11: once a fetch has failed in the producer no chunk and no sentinel   *)
(* follows, and an advance that then needs a refill ends (with an error)   *)
(* instead of waiting on the queue for ever.  The producer is dead, so     *)
(* nothing can arrive later: the call ends only if it can end now.         *)
(***************************************************************************)
C11_FailedProducerIsReported ==
    (producer.pc = "failed") =>
        /\ \A i \in DOMAIN sent : sent[i] # Tag(DoneItem)
        /\ (\E s \in Range(watched_assets) : asset[s].buffer = <<>>)
               => ENABLED increment_dataframes

(***************************************************************************)
(* C12: when the item an advance takes from the queue is neither a mapping *)
(* nor the sentinel, the advance raises TypeError, no window and no buffer *)
(* is modified and no row is admitted.                                     *)
(***************************************************************************)
C12_InvalidItemRaises ==
    [][(consumed' # consumed /\ Last(consumed')[1] \notin {"chunk", "DONE"}) =>
          /\ lastOp' = "advance"
          /\ lastResult' = "TypeError"
          /\ asset' = asset
          /\ admitted' = admitted
          /\ trace'.assigned = {} /\ trace'.emptyAdmit = {}]_vars

\* An advance has taken a string that is not the sentinel and raised TypeError,
\* with a window already populated.
C12_Witness ==
    /\ lastOp = "advance"
    /\ lastResult = "TypeError"
    /\ consumed # <<>>
    /\ Last(consumed)[1] = "string"
    /\ asset["SPY"].df # <<>>

SessionsBeforeStart ==
    {d \in (StartDate - start_buffer_days - LookbackDays)..(StartDate - 1) : IsTradingDay(d)}

(***************************************************************************)
(* C14: the warm-up fetch of startup covers exactly the start_buffer_days  *)
(* most recent trading sessions strictly before start_date: its last date  *)
(* is the last session before start_date, its first date is the            *)
(* start_buffer_days-th session counting backward from there, and no       *)
(* warm-up row is dated on or after start_date.                            *)
(***************************************************************************)
C14_WarmupEndsBeforeStart ==
    (lastOp = "startup") =>
        /\ StartBufferRange[2] \in SessionsBeforeStart
        /\ \A d \in SessionsBeforeStart : d <= StartBufferRange[2]
        /\ StartBufferRange[1] \in SessionsBeforeStart
        /\ Cardinality({d \in SessionsBeforeStart : d >= StartBufferRange[1]}) = start_buffer_days
        /\ \A s \in Range(watched_assets) :
              \A i \in DOMAIN admitted[s] : DateOf(admitted[s][i].timestamp) < StartDate

\* The rows of the raw frame that qualify: dated on a session of the fetch
\* range and, unless the bars are daily, stamped inside the session's hours.
Qualifies(row) ==
    /\ DateOf(row.t) \in FetchStartDate..FetchEndDate
    /\ IsTradingDay(DateOf(row.t))
    /\ \/ time_frame_unit = "Day"
       \/ /\ row.t >= open_time(DateOf(row.t))
          /\ row.t <= close_time(DateOf(row.t))

Qualifying == {i \in DOMAIN fetched.raw : Qualifies(fetched.raw[i])}

FetchRowsAgree ==
    get_alpaca_data_rows(time_frame_unit, [i \in DOMAIN fetched.raw |-> fetched.raw[i].t],
                         FetchStartDate, FetchEndDate)
        = [k \in DOMAIN get_alpaca_data_frame(time_frame_unit, fetched.raw,
                                              FetchStartDate, FetchEndDate) |->
              get_alpaca_data_frame(time_frame_unit, fetched.raw,
                                    FetchStartDate, FetchEndDate)[k].timestamp]

\* What unwatch(symbol) has to do, by the case the symbol is in.
UnwatchPost(symbol) ==
    IF symbol = "SPY"
       THEN /\ lastResult' = "True"
            /\ watched_assets' = watched_assets
            /\ asset' = asset
       ELSE IF \E i \in DOMAIN watched_assets : watched_assets[i] = symbol
               THEN /\ lastResult' = "True"
                    /\ Range(watched_assets') = Range(watched_assets) \ {symbol}
                    /\ Len(watched_assets') = Len(watched_assets) - 1
                    /\ \A s \in Range(watched_assets') : asset'[s] = asset[s]
               ELSE /\ lastResult' = "False"
                    /\ watched_assets' = watched_assets
                    /\ asset' = asset

(***************************************************************************)
(* C16: the reference instrument SPY is tracked at all times.  unwatch of  *)
(* SPY reports success and changes nothing; unwatch of another tracked     *)
(* instrument removes it and reports success; unwatch of an instrument     *)
(* that is not tracked reports failure and changes nothing.                *)
(***************************************************************************)
C16_ReferenceStaysTracked ==
    [][/\ \E i \in DOMAIN watched_assets : watched_assets[i] = "SPY"
       /\ \E i \in DOMAIN watched_assets' : watched_assets'[i] = "SPY"
       /\ \A symbol \in Symbols : unwatch_asset(symbol) => UnwatchPost(symbol)]_vars

\* unwatch has removed AAPL, which had a populated window, and SPY is what is left.
C16_Witness ==
    /\ lastOp = "unwatch"
    /\ lastResult = "True"
    /\ watched_assets = <<"SPY">>
    /\ asset["AAPL"].df # <<>>

\* The window of s after the step is the window before it, possibly without
\* its head, possibly followed by one new row: no row that stays is changed.
WindowOnlyAdvanced(s) ==
    \E evict \in {0, 1} : \E new \in {0, 1} :
        /\ Len(asset'[s].df) = Len(asset[s].df) - evict + new
        /\ \A i \in 1..(Len(asset[s].df) - evict) : asset'[s].df[i] = asset[s].df[i + evict]

(***************************************************************************)
(* C17: the derived column is evaluated once per admitted row, by the call *)
(* of increment_dataframe that admits it, and a row already in the window  *)
(* is not modified afterwards: an advance evaluates the derived column     *)
(* only for instruments it admitted a row for, and changes a window only   *)
(* by appending the new row and evicting the head.                         *)
(***************************************************************************)
C17_DerivedEvaluatedOnce ==
    [][AdvanceStep =>
          /\ trace'.evaluated \cap trace'.emptyAdmit = {}
          /\ \A s \in Range(watched_assets) : WindowOnlyAdvanced(s)]_vars

\* The part of it about the rows of the windows alone.
WindowsOnlyAdvanced ==
    [][AdvanceStep => \A s \in Range(watched_assets) : WindowOnlyAdvanced(s)]_vars

\* An advance has taken the sentinel off the queue (and raised StopIteration).
DoneConsumed == \E i \in DOMAIN consumed : consumed[i] = Tag(DoneItem)

(***************************************************************************)
(* C18: once an advance has raised StopIteration on the sentinel, every    *)
(* later advance raises StopIteration too, and none of them waits on the   *)
(* queue: an advance is always able to complete.                           *)
(***************************************************************************)
C18_ExhaustedIsTerminal ==
    [][DoneConsumed =>
          /\ ENABLED increment_dataframes
          /\ (lastOp' = "advance" /\ vars' # vars) => lastResult' = "StopIteration"]_vars

\* Some tracked instrument has nothing left in its buffer.
SomeTrackedBufferEmpty == \E s \in Range(watched_assets) : asset[s].buffer = <<>>

(***************************************************************************)
(* C19: an advance takes an item from the queue if and only if the buffer  *)
(* of some tracked instrument is empty when it is called, and then it      *)
(* takes exactly the head of the queue; when every buffer holds rows the   *)
(* advance can complete at once, whatever the queue holds and wherever the *)
(* producer is.                                                            *)
(***************************************************************************)
C19_ReadsQueueIffBufferEmpty ==
    [][/\ ~SomeTrackedBufferEmpty => ENABLED increment_dataframes
       /\ increment_dataframes =>
             IF SomeTrackedBufferEmpty
                THEN /\ buffered_df_queue # <<>>
                     /\ buffered_df_queue' = Tail(buffered_df_queue)
                     /\ Len(consumed') = Len(consumed) + 1
                     /\ Last(consumed') = Tag(Head(buffered_df_queue))
                ELSE /\ buffered_df_queue' = buffered_df_queue
                     /\ consumed' = consumed]_vars

\* An advance has completed without a refill while the queue was empty and
\* the producer was still fetching.
C19_Witness ==
    /\ lastOp = "advance"
    /\ lastResult = "none"
    /\ trace.assigned = {}
    /\ consumed # <<>>
    /\ Last(consumed)[1] = "chunk"
    /\ buffered_df_queue = <<>>
    /\ producer.pc = "running"

(***************************************************************************)
(* C20: with a registry that does not change after startup and fetches     *)
(* that hold the same timestamps for every instrument, after startup and   *)
(* after every advance that returned normally the last rows of the windows *)
(* of all tracked instruments carry the timestamp of the last row of the   *)
(* reference instrument's window (a window without rows goes with a        *)
(* reference window without rows).                                         *)
(***************************************************************************)
C20_TailsAligned ==
    (lastOp = "startup" \/ (lastOp = "advance" /\ lastResult = "none")) =>
        \A s \in Range(watched_assets) :
            IF asset[s].df = <<>>
               THEN asset["SPY"].df = <<>>
               ELSE /\ asset["SPY"].df # <<>>
                    /\ Last(asset[s].df).timestamp = Last(asset["SPY"].df).timestamp

\* Two instruments have been advanced past the warm-up rows, through a refill.
C20_Witness ==
    /\ lastOp = "advance"
    /\ lastResult = "none"
    /\ watched_assets = <<"SPY", "AAPL">>
    /\ consumed # <<>>
    /\ asset["AAPL"].df # <<>>
    /\ Len(admitted["AAPL"]) >= 3
    /\ Last(asset["AAPL"].df).timestamp >= EndDate * SlotsPerDay

====
